---- MODULE Spec2Model ----
(***************************************************************************)
(* Model of the build-action queue of src/queue-algo/utility.py (class     *)
(* Utility) together with the parts of src/queue-algo/algo_strategy.py     *)
(* that feed it.                                                           *)
(*                                                                         *)
(* Python lists are objects: an action stores a REFERENCE to the list the  *)
(* caller passed.  The model therefore keeps a heap of list objects and    *)
(* every action holds the reference of its 'locations' list, so that two   *)
(* actions (or an action and the caller's scored_on_locations log) may     *)
(* share one list object exactly as they do in the program.                *)
(***************************************************************************)
EXTENDS Integers, Sequences, FiniteSets, TLC

VARIABLES action_queue, heap, all_defenses, change_flag, turn_number, calls, last,
          ncalls, all_locations, game_map

vars == <<action_queue, heap, all_defenses, change_flag, turn_number, calls, last,
          ncalls, all_locations, game_map>>

(* ---------------------------------------------------------------------- *)
(* Program constants                                                      *)
(* ---------------------------------------------------------------------- *)
ARENA_SIZE == 28

DEFAULT_MAX_NUM == 9999

UPGRADE_ALL == "upgrade_all"

(* ---------------------------------------------------------------------- *)
(* Bounds of the exploration                                              *)
(* ---------------------------------------------------------------------- *)
MaxLen == 2

MaxBudget == 1

(* largest cap of a user action in the execution passes *)
MaxCap == 2

(* most requests the engine can afford in one execution pass *)
MaxWalkBudget == 3

(* number of handler calls explored in one run *)
MaxCalls == 3

(* last turn of a match that is played turn by turn *)
MaxTurn == 6

(* most candidates handed to the spawn selector in one call *)
MaxOptions == 3

(* most cells on the route of a candidate *)
MaxPath == 2

(* most turrets in reach of one cell of a route *)
MaxAttackers == 2

(* largest damage of one turret hit *)
MaxDamage == 2

(* Inputs the policy layer hands to the queue. *)
Cells == {<<24, 13>>, <<27, 13>>}

UserIds == {"initial_turrets", "response_turrets"}

Ids == UserIds \cup {"initial_walls", UPGRADE_ALL}

Templates ==
    { [unit_type |-> "TURRET",  upgrade |-> FALSE, max_num |-> DEFAULT_MAX_NUM],
      [unit_type |-> "",        upgrade |-> TRUE,  max_num |-> 2] }

(* the actions of the execution passes: placement under every cap up to  *)
(* MaxCap, and an upgrade that carries a unit type                        *)
WalkTemplates ==
    { [unit_type |-> "TURRET", upgrade |-> FALSE, max_num |-> k] : k \in 0..MaxCap }
    \cup { [unit_type |-> "FACTORY", upgrade |-> TRUE, max_num |-> 1] }

(* one turn number for each outcome of the comparisons with 10 and 15 *)
Turns == {0, 10, 15}

RECURSIVE SeqsUpTo(_)
SeqsUpTo(n) == IF n = 0 THEN {<<>>}
               ELSE LET S == SeqsUpTo(n - 1)
                    IN  S \cup {Append(s, c) : s \in {t \in S : Len(t) = n - 1}, c \in Cells}

CellLists == SeqsUpTo(MaxLen)

(* ---------------------------------------------------------------------- *)
(* Coordinate codec                                                       *)
(* ---------------------------------------------------------------------- *)
(* variant: the row is not scaled by the arena size *)
point_hash_flat(location) == 1 * location[1] + location[2]

point_hash(location) == 1 * location[1] + ARENA_SIZE * location[2]

(* variant: quotient and remainder change places *)
inv_point_hash_swapped(hashed_location) ==
    <<hashed_location \div ARENA_SIZE, hashed_location % ARENA_SIZE>>

inv_point_hash(hashed_location) ==
    <<hashed_location % ARENA_SIZE, hashed_location \div ARENA_SIZE>>

(* set(map(point_hash, locations)) *)
HashSet(locations) == {point_hash(locations[i]) : i \in DOMAIN locations}

(* ---------------------------------------------------------------------- *)
(* Python list primitives                                                 *)
(* ---------------------------------------------------------------------- *)
(* list.pop(index), index counted from 1 here *)
ListPop(s, index) == [i \in 1..(Len(s) - 1) |-> IF i < index THEN s[i] ELSE s[i + 1]]

(* list.insert(0, value) *)
ListInsertFront(s, value) == <<value>> \o s

(* list.remove(value): deletes the FIRST element equal to value *)
ListRemove(s, value) ==
    LET hits == {i \in DOMAIN s : s[i] = value}
    IN  IF hits = {} THEN s
        ELSE ListPop(s, CHOOSE i \in hits : \A j \in hits : i <= j)

(* for location in overlap: action['locations'].remove(inv_point_hash(location)) *)
RECURSIVE TrimLocations(_, _)
TrimLocations(s, overlap) ==
    IF overlap = {} THEN s
    ELSE LET h == CHOOSE h \in overlap : TRUE
         IN  TrimLocations(ListRemove(s, inv_point_hash(h)), overlap \ {h})

(* variant: the element is compared through its hash *)
ElemEqualsIntByHash(elem, n) == (1 * elem[1] + ARENA_SIZE * elem[2]) = n

(* A list element [x, y] compared with the int returned by point_hash:   *)
(* in Python a list never equals an int.                                  *)
ElemEqualsInt(elem, n) == FALSE

(* self.all_defenses.remove(n) inside try/except: a miss is swallowed *)
TryRemoveInt(s, n) ==
    LET hits == {i \in DOMAIN s : ElemEqualsInt(s[i], n)}
    IN  IF hits = {} THEN s
        ELSE ListPop(s, CHOOSE i \in hits : \A j \in hits : i <= j)

RECURSIVE DiscardDefenses(_, _, _)
DiscardDefenses(s, remove_locations, k) ==
    IF k > Len(remove_locations) THEN s
    ELSE DiscardDefenses(TryRemoveInt(s, point_hash(remove_locations[k])),
                         remove_locations, k + 1)

(* ---------------------------------------------------------------------- *)
(* The Utility object as a value                                          *)
(*   queue        : self.action_queue (records; 'locations' is a heap ref)*)
(*   heap         : list objects reachable from the queue or the policy   *)
(*   all_defenses : reference of the list bound to self.all_defenses      *)
(*   change_flag  : self.change_flag                                      *)
(* ---------------------------------------------------------------------- *)
(* self.scored_on_locations of the policy: allocated once, never rebound *)
SCORED_REF == 1

Max(S) == CHOOSE m \in S : \A n \in S : n <= m

Min(S) == CHOOSE m \in S : \A n \in S : m <= n

(* a new list object *)
FreshRef(h) == Max(DOMAIN h) + 1

Alloc(h, contents) == [r \in (DOMAIN h) \cup {FreshRef(h)} |->
                          IF r \in DOMAIN h THEN h[r] ELSE contents]

(* first index whose id matches, 0 when the scan leaves index = -1 *)
IndexOfFirst(queue, id) ==
    LET hits == {i \in DOMAIN queue : queue[i].id = id}
    IN  IF hits = {} THEN 0 ELSE Min(hits)

(* append_action's loop has no break: index ends on the LAST match *)
IndexOfLast(queue, id) ==
    LET hits == {i \in DOMAIN queue : queue[i].id = id}
    IN  IF hits = {} THEN 0 ELSE Max(hits)

(* variant: the flag is raised before the scan for the id *)
remove_action_eager(st, id) ==
    LET index == IndexOfFirst(st.queue, id)
    IN  IF index = 0 THEN [st EXCEPT !.change_flag = TRUE]
        ELSE LET remove_locations == st.heap[st.queue[index].locations]
             IN  [st EXCEPT
                    !.change_flag = TRUE,
                    !.heap = [@ EXCEPT ![st.all_defenses] =
                                 DiscardDefenses(@, remove_locations, 1)],
                    !.queue = ListPop(@, index)]

remove_action(st, id) ==
    LET index == IndexOfFirst(st.queue, id)
    IN  IF index = 0 THEN st
        ELSE LET remove_locations == st.heap[st.queue[index].locations]
             IN  [st EXCEPT
                    !.change_flag = TRUE,
                    !.heap = [@ EXCEPT ![st.all_defenses] =
                                 DiscardDefenses(@, remove_locations, 1)],
                    !.queue = ListPop(@, index)]

(* the for-loop of append_action: trims every existing placement action, *)
(* one after the other, through the list object it refers to             *)
RECURSIVE TrimLoop(_, _, _, _, _)
TrimLoop(queue, h, i, locations_set, upgrade) ==
    IF i > Len(queue) THEN h
    ELSE LET action  == queue[i]
             overlap == IF upgrade = FALSE /\ action.upgrade = FALSE
                        THEN HashSet(h[action.locations]) \cap locations_set
                        ELSE {}
         IN  TrimLoop(queue,
                      [h EXCEPT ![action.locations] = TrimLocations(@, overlap)],
                      i + 1, locations_set, upgrade)

(* variant: an action already queued under the id is left in place *)
append_action_keep(st, id, unit_type, locations, upgrade, max_num) ==
    [st EXCEPT
       !.heap = TrimLoop(st.queue, @, 1, HashSet(st.heap[locations]), upgrade),
       !.change_flag = TRUE,
       !.queue = Append(@, [id |-> id, unit_type |-> unit_type, locations |-> locations,
                            upgrade |-> upgrade, max_num |-> max_num])]

(* variant: the new action is put at the head *)
append_action_front(st, id, unit_type, locations, upgrade, max_num) ==
    LET trimmed == [st EXCEPT !.heap = TrimLoop(st.queue, @, 1,
                                                HashSet(st.heap[locations]), upgrade)]
        cleared == IF IndexOfLast(st.queue, id) # 0 THEN remove_action(trimmed, id)
                   ELSE trimmed
    IN  [cleared EXCEPT
           !.change_flag = TRUE,
           !.queue = <<[id |-> id, unit_type |-> unit_type, locations |-> locations,
                        upgrade |-> upgrade, max_num |-> max_num]>> \o @]

append_action(st, id, unit_type, locations, upgrade, max_num) ==
    LET locations_set == HashSet(st.heap[locations])
        trimmed == [st EXCEPT !.heap = TrimLoop(st.queue, @, 1, locations_set, upgrade)]
        index   == IndexOfLast(st.queue, id)
        cleared == IF index # 0 THEN remove_action(trimmed, id) ELSE trimmed
        action_object == [id |-> id, unit_type |-> unit_type, locations |-> locations,
                          upgrade |-> upgrade, max_num |-> max_num]
    IN  [cleared EXCEPT !.change_flag = TRUE,
                        !.queue = Append(@, action_object)]

(* variant: the action changes places with the head *)
prioritize_action_swap(st, id) ==
    LET index == IndexOfFirst(st.queue, id)
    IN  [st EXCEPT !.change_flag = TRUE,
                   !.queue = [i \in DOMAIN st.queue |->
                                IF i = 1 THEN st.queue[index]
                                ELSE IF i = index THEN st.queue[1]
                                ELSE st.queue[i]]]

(* variant: the flag is not raised *)
prioritize_action_silent(st, id) ==
    LET index == IndexOfFirst(st.queue, id)
    IN  [st EXCEPT !.queue = ListInsertFront(ListPop(@, index), st.queue[index])]

(* prioritize_action past its 'raise': the id is in the queue *)
prioritize_action(st, id) ==
    LET index == IndexOfFirst(st.queue, id)
        value == st.queue[index]
    IN  [st EXCEPT !.change_flag = TRUE,
                   !.queue = ListInsertFront(ListPop(@, index), value)]

(* self.all_defenses += action['locations'] over the non-upgrade actions *)
RECURSIVE CollectDefenses(_, _, _)
CollectDefenses(queue, h, i) ==
    IF i > Len(queue) THEN <<>>
    ELSE (IF queue[i].upgrade = TRUE THEN <<>> ELSE h[queue[i].locations])
         \o CollectDefenses(queue, h, i + 1)

(* variant: the thresholds 10 and 15 belong to the lower band *)
UpgradeAllCap_inclusive(turn) ==
    IF turn <= 10 THEN 1 ELSE IF turn <= 15 THEN 2 ELSE 4

UpgradeAllCap(turn) == IF turn < 10 THEN 1 ELSE IF turn < 15 THEN 2 ELSE 4

(* variant: the regenerated action is appended as a placement action *)
refresh_upgrade_all_placing(st, turn) ==
    LET removed  == remove_action(st, UPGRADE_ALL)
        ref      == FreshRef(removed.heap)
        gathered == [removed EXCEPT
                       !.heap = Alloc(removed.heap,
                                      CollectDefenses(removed.queue, removed.heap, 1)),
                       !.all_defenses = ref]
        appended == append_action(gathered, UPGRADE_ALL, "", ref, FALSE,
                                  UpgradeAllCap(turn))
    IN  [appended EXCEPT !.change_flag = FALSE]

(* variant: the flag raised by the inner append is left as it is *)
refresh_upgrade_all_dirty(st, turn) ==
    LET removed  == remove_action(st, UPGRADE_ALL)
        ref      == FreshRef(removed.heap)
        gathered == [removed EXCEPT
                       !.heap = Alloc(removed.heap,
                                      CollectDefenses(removed.queue, removed.heap, 1)),
                       !.all_defenses = ref]
    IN  append_action(gathered, UPGRADE_ALL, "", ref, TRUE, UpgradeAllCap(turn))

(* variant: the regenerated action is put at the head of the queue *)
refresh_upgrade_all_front(st, turn) ==
    LET removed  == remove_action(st, UPGRADE_ALL)
        ref      == FreshRef(removed.heap)
        gathered == [removed EXCEPT
                       !.heap = Alloc(removed.heap,
                                      CollectDefenses(removed.queue, removed.heap, 1)),
                       !.all_defenses = ref]
        appended == append_action_front(gathered, UPGRADE_ALL, "", ref, TRUE,
                                        UpgradeAllCap(turn))
    IN  [appended EXCEPT !.change_flag = FALSE]

(* variant: the cells are gathered before the old action is removed *)
refresh_upgrade_all_gather_first(st, turn) ==
    LET cells    == CollectDefenses(st.queue, st.heap, 1)
        removed  == remove_action(st, UPGRADE_ALL)
        ref      == FreshRef(removed.heap)
        gathered == [removed EXCEPT !.heap = Alloc(removed.heap, cells),
                                    !.all_defenses = ref]
        appended == append_action(gathered, UPGRADE_ALL, "", ref, TRUE, UpgradeAllCap(turn))
    IN  [appended EXCEPT !.change_flag = FALSE]

refresh_upgrade_all(st, turn) ==
    LET removed  == remove_action(st, UPGRADE_ALL)
        ref      == FreshRef(removed.heap)
        gathered == [removed EXCEPT
                       !.heap = Alloc(removed.heap,
                                      CollectDefenses(removed.queue, removed.heap, 1)),
                       !.all_defenses = ref]
        appended == append_action(gathered, UPGRADE_ALL, "", ref, TRUE, UpgradeAllCap(turn))
    IN  [appended EXCEPT !.change_flag = FALSE]

(* ---------------------------------------------------------------------- *)
(* attempt_actions: the walk over the queue                               *)
(* The engine of one turn is an input: the cells on which it refuses a    *)
(* request and the number of requests its resources still pay for.        *)
(* ---------------------------------------------------------------------- *)
EngineResult(blocked, budget, location) ==
    IF location \notin blocked /\ budget > 0 THEN 1 ELSE 0

(* variant: a request that returned 0 is issued a second time *)
RECURSIVE WalkAction_retry(_, _, _, _, _, _, _)
WalkAction_retry(action, locations, j, taken_actions, blocked, budget, log) ==
    IF j > Len(locations) THEN [log |-> log, budget |-> budget]
    ELSE LET result == EngineResult(blocked, budget, locations[j])
             call   == [kind |-> IF action.upgrade THEN "upgrade" ELSE "spawn",
                        unit_type |-> IF action.upgrade THEN "" ELSE action.unit_type,
                        location |-> locations[j], result |-> result,
                        id |-> action.id, pos |-> j]
             issued == IF result = 0 THEN Append(Append(log, call), call)
                       ELSE Append(log, call)
             taken  == taken_actions + result
         IN  IF taken >= action.max_num
             THEN [log |-> issued, budget |-> budget - result]
             ELSE WalkAction_retry(action, locations, j + 1, taken, blocked,
                                   budget - result, issued)

(* variant: the walk of an action stops once the cap is exceeded *)
RECURSIVE WalkAction_late(_, _, _, _, _, _, _)
WalkAction_late(action, locations, j, taken_actions, blocked, budget, log) ==
    IF j > Len(locations) THEN [log |-> log, budget |-> budget]
    ELSE LET result == EngineResult(blocked, budget, locations[j])
             call   == [kind |-> IF action.upgrade THEN "upgrade" ELSE "spawn",
                        unit_type |-> IF action.upgrade THEN "" ELSE action.unit_type,
                        location |-> locations[j], result |-> result,
                        id |-> action.id, pos |-> j]
             taken  == taken_actions + result
         IN  IF taken > action.max_num
             THEN [log |-> Append(log, call), budget |-> budget - result]
             ELSE WalkAction_late(action, locations, j + 1, taken, blocked,
                                  budget - result, Append(log, call))

(* variant: the request is chosen by the unit type, not by the upgrade field *)
RECURSIVE WalkAction_by_type(_, _, _, _, _, _, _)
WalkAction_by_type(action, locations, j, taken_actions, blocked, budget, log) ==
    IF j > Len(locations) THEN [log |-> log, budget |-> budget]
    ELSE LET result == EngineResult(blocked, budget, locations[j])
             call   == [kind |-> IF action.unit_type = "" THEN "upgrade" ELSE "spawn",
                        unit_type |-> action.unit_type,
                        location |-> locations[j], result |-> result,
                        id |-> action.id, pos |-> j]
             taken  == taken_actions + result
         IN  IF taken >= action.max_num
             THEN [log |-> Append(log, call), budget |-> budget - result]
             ELSE WalkAction_by_type(action, locations, j + 1, taken, blocked,
                                     budget - result, Append(log, call))

(* for location in action['locations']: ... if taken_actions >= max_actions: break *)
RECURSIVE WalkAction(_, _, _, _, _, _, _)
WalkAction(action, locations, j, taken_actions, blocked, budget, log) ==
    IF j > Len(locations) THEN [log |-> log, budget |-> budget]
    ELSE LET result == EngineResult(blocked, budget, locations[j])
             call   == [kind      |-> IF action.upgrade THEN "upgrade" ELSE "spawn",
                        unit_type |-> IF action.upgrade THEN "" ELSE action.unit_type,
                        location  |-> locations[j],
                        result    |-> result,
                        id        |-> action.id,
                        pos       |-> j]
             taken  == taken_actions + result
         IN  IF taken >= action.max_num
             THEN [log |-> Append(log, call), budget |-> budget - result]
             ELSE WalkAction(action, locations, j + 1, taken, blocked,
                             budget - result, Append(log, call))

(* variant: the queue is walked from its tail *)
RECURSIVE WalkQueue_reversed(_, _, _, _, _, _)
WalkQueue_reversed(queue, h, i, blocked, budget, log) ==
    IF i > Len(queue) THEN log
    ELSE LET k == Len(queue) + 1 - i
             r == WalkAction(queue[k], h[queue[k].locations], 1, 0, blocked, budget, log)
         IN  WalkQueue_reversed(queue, h, i + 1, blocked, r.budget, r.log)

(* for action in self.action_queue: ... *)
RECURSIVE WalkQueue(_, _, _, _, _, _)
WalkQueue(queue, h, i, blocked, budget, log) ==
    IF i > Len(queue) THEN log
    ELSE LET r == WalkAction(queue[i], h[queue[i].locations], 1, 0, blocked, budget, log)
         IN  WalkQueue(queue, h, i + 1, blocked, r.budget, r.log)

(* variant: the upgrade-all action is rebuilt on every pass *)
attempt_actions_always(st, turn) == refresh_upgrade_all(st, turn)

(* the queue part of attempt_actions *)
attempt_actions(st, turn) ==
    IF st.change_flag THEN refresh_upgrade_all(st, turn) ELSE st

(* ---------------------------------------------------------------------- *)
(* Object identity is only observable through sharing: after each handler *)
(* unreachable lists are dropped and the live ones renumbered in the      *)
(* order scored_on_locations, queue[0], queue[1], ..., all_defenses.      *)
(* ---------------------------------------------------------------------- *)
Holders(st) == <<SCORED_REF>>
               \o [i \in 1..Len(st.queue) |-> st.queue[i].locations]
               \o <<st.all_defenses>>

Rank(holders, ref) ==
    LET first == Min({i \in DOMAIN holders : holders[i] = ref})
    IN  Cardinality({holders[i] : i \in 1..first})

Normalize(st) ==
    LET holders == Holders(st)
        live    == {holders[i] : i \in DOMAIN holders}
        back    == [n \in 1..Cardinality(live) |->
                      CHOOSE r \in live : Rank(holders, r) = n]
    IN  [queue        |-> [i \in 1..Len(st.queue) |->
                             [st.queue[i] EXCEPT !.locations = Rank(holders, @)]],
         heap         |-> [n \in 1..Cardinality(live) |-> st.heap[back[n]]],
         all_defenses |-> Rank(holders, st.all_defenses),
         change_flag  |-> st.change_flag]

Current == [queue |-> action_queue, heap |-> heap,
            all_defenses |-> all_defenses, change_flag |-> change_flag]

Becomes(st) ==
    LET n == Normalize(st)
    IN  /\ action_queue' = n.queue
        /\ heap' = n.heap
        /\ all_defenses' = n.all_defenses
        /\ change_flag' = n.change_flag

(* the queue as the policy reads it: every action with its cell sequence *)
View(queue, h) ==
    [i \in 1..Len(queue) |->
        [id |-> queue[i].id, unit_type |-> queue[i].unit_type,
         locations |-> h[queue[i].locations],
         upgrade |-> queue[i].upgrade, max_num |-> queue[i].max_num]]

(* list objects the policy can still pass: its breach log and the lists *)
(* it handed to the queue earlier                                        *)
CallerRefs == ({SCORED_REF} \cup {action_queue[i].locations : i \in DOMAIN action_queue})
              \ {all_defenses}

NoCall == [op |-> "init", id |-> "", unit_type |-> "", locations |-> <<>>,
           upgrade |-> FALSE, max_num |-> 0, shared |-> FALSE,
           index |-> 0, trimmed |-> FALSE, was_dirty |-> FALSE,
           error |-> "", turn |-> 0]

(* the stationary units of the own half: the cells that hold a unit and *)
(* the cells whose unit is upgraded; empty when the match starts          *)
NoUnits == [units |-> {}, upgraded |-> {}]

(* ---------------------------------------------------------------------- *)
(* State after construction (Utility.__init__, AlgoStrategy.__init__)     *)
(* ---------------------------------------------------------------------- *)
Init ==
    /\ action_queue = <<>>
    /\ heap = <<(<<>>), (<<>>)>>
    /\ all_defenses = 2
    /\ change_flag = FALSE
    /\ turn_number = 0
    /\ calls = <<>>
    /\ last = NoCall
    /\ ncalls = 0
    /\ all_locations = {}
    /\ game_map = NoUnits

(* ---------------------------------------------------------------------- *)
(* Handlers                                                               *)
(* ---------------------------------------------------------------------- *)
(* one more handler call of the run; the handlers of the queue policy    *)
(* keep no set of tracked locations and do not write the game map        *)
Step ==
    /\ ncalls < MaxCalls
    /\ ncalls' = ncalls + 1
    /\ UNCHANGED <<all_locations, game_map>>

AppendCall(id, tpl, ref, h, shared) ==
    LET st0  == [Current EXCEPT !.heap = h]
        post == append_action(st0, id, tpl.unit_type, ref, tpl.upgrade, tpl.max_num)
        loop == TrimLoop(action_queue, h, 1, HashSet(h[ref]), tpl.upgrade)
    IN  /\ Step
        /\ Becomes(post)
        /\ calls' = <<>>
        /\ last' = [NoCall EXCEPT
                      !.op = "append", !.id = id, !.unit_type = tpl.unit_type,
                      !.locations = h[ref], !.upgrade = tpl.upgrade,
                      !.max_num = tpl.max_num, !.shared = shared,
                      !.index = IndexOfLast(action_queue, id),
                      !.was_dirty = change_flag,
                      !.trimmed = (\E i \in DOMAIN action_queue :
                                      loop[action_queue[i].locations]
                                          # h[action_queue[i].locations])]
        /\ UNCHANGED turn_number

(* utility.append_action(id, unit_type, [...]) with a list built for the call *)
AppendAction(id, tpl, locations) ==
    AppendCall(id, tpl, FreshRef(heap), Alloc(heap, locations), FALSE)

(* utility.append_action(id, unit_type, L) with a list object L that the *)
(* policy already holds (scored_on_locations, or a list passed before)   *)
AppendShared(id, tpl, ref) ==
    /\ ref \in CallerRefs
    /\ AppendCall(id, tpl, ref, heap, TRUE)

(* on_game_start -> add_initial_defence: the three appends of the match start *)
add_initial_defence(st) ==
    LET turret_locations  == <<(<<3, 13>>), (<<24, 13>>)>>
        wall_locations    == <<(<<0, 13>>), (<<27, 13>>), (<<12, 13>>), (<<13, 13>>),
                               (<<14, 13>>), (<<15, 13>>)>>
        factory_locations == <<(<<3, 12>>)>>
        h1 == Alloc(st.heap, turret_locations)
        s1 == append_action([st EXCEPT !.heap = h1], "initial_turrets", "TURRET",
                            FreshRef(st.heap), FALSE, DEFAULT_MAX_NUM)
        h2 == Alloc(s1.heap, wall_locations)
        s2 == append_action([s1 EXCEPT !.heap = h2], "initial_walls", "WALL",
                            FreshRef(s1.heap), FALSE, DEFAULT_MAX_NUM)
        h3 == Alloc(s2.heap, factory_locations)
    IN  append_action([s2 EXCEPT !.heap = h3], "initial_factories", "FACTORY",
                      FreshRef(s2.heap), FALSE, DEFAULT_MAX_NUM)

OnGameStart ==
    /\ ncalls = 0
    /\ Step
    /\ Becomes(add_initial_defence(Current))
    /\ last' = [NoCall EXCEPT !.op = "game_start"]
    /\ calls' = <<>>
    /\ UNCHANGED turn_number

(* variant: the flag is raised before the scan for the id *)
PrioritizeActionEager(id) ==
    /\ Step
    /\ IF IndexOfFirst(action_queue, id) = 0
       THEN /\ UNCHANGED <<action_queue, heap, all_defenses>>
            /\ change_flag' = TRUE
            /\ last' = [NoCall EXCEPT !.op = "prioritize", !.id = id,
                                      !.was_dirty = change_flag,
                                      !.error = "ValueError"]
       ELSE /\ Becomes(prioritize_action(Current, id))
            /\ last' = [NoCall EXCEPT !.op = "prioritize", !.id = id,
                                      !.was_dirty = change_flag,
                                      !.index = IndexOfFirst(action_queue, id)]
    /\ calls' = <<>>
    /\ UNCHANGED turn_number

PrioritizeAction(id) ==
    /\ Step
    /\ IF IndexOfFirst(action_queue, id) = 0
       THEN /\ UNCHANGED <<action_queue, heap, all_defenses, change_flag>>
            /\ last' = [NoCall EXCEPT !.op = "prioritize", !.id = id,
                                      !.was_dirty = change_flag,
                                      !.error = "ValueError"]
       ELSE /\ Becomes(prioritize_action(Current, id))
            /\ last' = [NoCall EXCEPT !.op = "prioritize", !.id = id,
                                      !.was_dirty = change_flag,
                                      !.index = IndexOfFirst(action_queue, id)]
    /\ calls' = <<>>
    /\ UNCHANGED turn_number

RemoveAction(id) ==
    /\ Step
    /\ Becomes(remove_action(Current, id))
    /\ last' = [NoCall EXCEPT !.op = "remove", !.id = id,
                              !.was_dirty = change_flag,
                              !.index = IndexOfFirst(action_queue, id)]
    /\ calls' = <<>>
    /\ UNCHANGED turn_number

(* The code compares the turn number with 10 and 15 only, so a value of  *)
(* Turns stands for all turns with the same outcome of the comparisons:  *)
(* the match either stays among them or moves on to later turns.         *)
NextTurns == {t \in Turns : t >= turn_number}

(* the call record keeps the action that a refresh takes out of the     *)
(* queue: its index (0 when there is none), kind and cells               *)
AttemptActions(turn, blocked, budget) ==
    LET post  == attempt_actions(Current, turn)
        index == IF change_flag THEN IndexOfFirst(action_queue, UPGRADE_ALL) ELSE 0
    IN  /\ Step
        /\ turn \in NextTurns
        /\ Becomes(post)
        /\ calls' = WalkQueue(post.queue, post.heap, 1, blocked, budget, <<>>)
        /\ turn_number' = turn
        /\ last' = [NoCall EXCEPT
                      !.op = "execute", !.turn = turn, !.was_dirty = change_flag,
                      !.index = index,
                      !.upgrade = (index # 0 /\ action_queue[index].upgrade),
                      !.locations = IF index = 0 THEN <<>>
                                    ELSE heap[action_queue[index].locations]]

(* on_action_frame: self.scored_on_locations.append(location) *)
OnBreach(location) ==
    /\ Step
    /\ Len(heap[SCORED_REF]) < MaxLen
    /\ heap' = [heap EXCEPT ![SCORED_REF] = Append(@, location)]
    /\ last' = [NoCall EXCEPT !.op = "breach", !.locations = <<location>>]
    /\ calls' = <<>>
    /\ UNCHANGED <<action_queue, all_defenses, change_flag, turn_number>>

Next ==
    \/ OnGameStart
    \/ \E id \in UserIds \cup {UPGRADE_ALL}, tpl \in Templates, locations \in CellLists :
          AppendAction(id, tpl, locations)
    \/ \E id \in UserIds, tpl \in Templates, ref \in DOMAIN heap :
          AppendShared(id, tpl, ref)
    \/ \E id \in Ids : PrioritizeAction(id)
    \/ \E id \in Ids : RemoveAction(id)
    \/ \E turn \in Turns, blocked \in SUBSET Cells, budget \in 0..MaxBudget :
          AttemptActions(turn, blocked, budget)
    \/ \E location \in Cells : OnBreach(location)

Spec == Init /\ [][Next]_vars

(* the turns of a match seen from the executor: appends of capped        *)
(* actions and execution passes against an engine that can afford        *)
(* several requests                                                       *)
NextWalk ==
    \/ OnGameStart
    \/ \E id \in UserIds, tpl \in WalkTemplates, locations \in CellLists :
          AppendAction(id, tpl, locations)
    \/ \E turn \in Turns, blocked \in SUBSET Cells, budget \in 0..MaxWalkBudget :
          AttemptActions(turn, blocked, budget)

SpecWalk == Init /\ [][NextWalk]_vars

(* ---------------------------------------------------------------------- *)
(* The spawn selector on its own. The engine is an input of the call:     *)
(* find_path[location] is the answer of game_state.find_path_to_edge,     *)
(* either no route or the route given by the number of turrets in reach   *)
(* of each of its cells (len(game_state.get_attackers(cell, 0))), and     *)
(* damage_i is the damage of one turret hit.                              *)
(* ---------------------------------------------------------------------- *)
Spawns == {<<10, 3>>, <<11, 2>>, <<16, 3>>}

RECURSIVE OptionsUpTo(_)
OptionsUpTo(n) ==
    IF n = 0 THEN {<<>>}
    ELSE LET shorter == OptionsUpTo(n - 1)
         IN  shorter \cup {Append(o, c) : o \in {s \in shorter : Len(s) = n - 1},
                                          c \in Spawns}

RECURSIVE PathsUpTo(_)
PathsUpTo(n) ==
    IF n = 0 THEN {<<>>}
    ELSE LET shorter == PathsUpTo(n - 1)
         IN  shorter \cup {Append(q, a) : q \in {s \in shorter : Len(s) = n - 1},
                                          a \in 0..MaxAttackers}

(* find_path_to_edge answers None or a route of at least one cell *)
PathAnswers ==
    {[found |-> FALSE, path |-> <<>>]}
    \cup {[found |-> TRUE, path |-> q] : q \in PathsUpTo(MaxPath) \ {<<>>}}

(* for path_location in path: damage += len(get_attackers(...)) * damage_i *)
RECURSIVE PathDamage(_, _, _)
PathDamage(path, damage_i, k) ==
    IF k > Len(path) THEN 0
    ELSE path[k] * damage_i + PathDamage(path, damage_i, k + 1)

(* the loop that fills damages: a candidate without a route adds nothing *)
RECURSIVE FillDamages(_, _, _, _, _)
FillDamages(location_options, find_path, damage_i, i, damages) ==
    IF i > Len(location_options) THEN damages
    ELSE LET answer == find_path[location_options[i]]
         IN  IF ~answer.found
             THEN FillDamages(location_options, find_path, damage_i, i + 1, damages)
             ELSE FillDamages(location_options, find_path, damage_i, i + 1,
                              Append(damages, PathDamage(answer.path, damage_i, 1)))

(* damages.index(min(damages)) *)
IndexOfMin(damages) ==
    LET least == Min({damages[k] : k \in DOMAIN damages})
    IN  Min({k \in DOMAIN damages : damages[k] = least})

(* variant: an empty damages list yields the first candidate *)
least_damage_spawn_location_default(location_options, find_path, damage_i) ==
    LET damages == FillDamages(location_options, find_path, damage_i, 1, <<>>)
    IN  IF damages = <<>>
        THEN [error |-> "", location |-> IF location_options = <<>> THEN <<>>
                                         ELSE location_options[1]]
        ELSE [error |-> "", location |-> location_options[IndexOfMin(damages)]]

least_damage_spawn_location(location_options, find_path, damage_i) ==
    LET damages == FillDamages(location_options, find_path, damage_i, 1, <<>>)
    IN  IF damages = <<>>
        THEN [error |-> "ValueError", location |-> <<>>]
        ELSE [error |-> "", location |-> location_options[IndexOfMin(damages)]]

(* self.least_damage_spawn_location(game_state, location_options) *)
LeastDamageSpawnLocation(location_options, find_path, damage_i) ==
    LET answer == least_damage_spawn_location(location_options, find_path, damage_i)
    IN  /\ Step
        /\ last' = [op |-> "least_damage", location_options |-> location_options,
                    find_path |-> find_path, damage_i |-> damage_i,
                    error |-> answer.error, location |-> answer.location]
        /\ UNCHANGED <<action_queue, heap, all_defenses, change_flag, turn_number, calls>>

(* one call on the policy as constructed: the selector reads the engine   *)
(* only, so a second call adds nothing                                     *)
NextSelector ==
    /\ ncalls = 0
    /\ \E location_options \in OptionsUpTo(MaxOptions),
          find_path \in [Spawns -> PathAnswers],
          damage_i \in 1..MaxDamage :
             LeastDamageSpawnLocation(location_options, find_path, damage_i)

SpecSelector == Init /\ [][NextSelector]_vars

(* ---------------------------------------------------------------------- *)
(* A match turn by turn: on_game_start, then on_turn for the turns 0, 1,  *)
(* 2, ... with breach frames in between. Inside on_turn the state carries *)
(* two more fields: trace, the calls the policy has made so far in the    *)
(* turn, and error, the exception on its way out of on_turn, if any.      *)
(* ---------------------------------------------------------------------- *)
ScoutOptions == <<(<<10, 3>>), (<<11, 2>>), (<<16, 3>>), (<<17, 3>>)>>

(* the pathfinder finds a route for no scout candidate, or for all *)
ScoutAnswers ==
    { [c \in {ScoutOptions[i] : i \in DOMAIN ScoutOptions} |->
          [found |-> f, path |-> IF f THEN <<1>> ELSE <<>>]] : f \in BOOLEAN }

Called(st, name) == [st EXCEPT !.trace = Append(@, name)]

(* the state st is worked out once and then handed to Op *)
Bind(st, Op(_)) == CHOOSE r \in {Op(s) : s \in {st}} : TRUE

(* game_state.attempt_spawn(...) made by the policy itself *)
call_engine(st, name) ==
    Bind(st, LAMBDA s : IF s.error # "" THEN s ELSE Called(s, name))

call_append(st, id, unit_type, ref, upgrade) ==
    Bind(st, LAMBDA s :
        IF s.error # "" THEN s
        ELSE Called(append_action(s, id, unit_type, ref, upgrade, DEFAULT_MAX_NUM),
                    "append_action"))

call_remove(st, id) ==
    Bind(st, LAMBDA s :
        IF s.error # "" THEN s ELSE Called(remove_action(s, id), "remove_action"))

call_prioritize(st, id) ==
    Bind(st, LAMBDA s :
        IF s.error # "" THEN s
        ELSE IF IndexOfFirst(s.queue, id) = 0
             THEN [Called(s, "prioritize_action") EXCEPT !.error = "ValueError"]
             ELSE Called(prioritize_action(s, id), "prioritize_action"))

(* variant: the two actions are moved to the front in the other order *)
build_reactive_defense_swapped(st) ==
    LET s1 == call_remove(st, "response_turrets")
        s2 == call_remove(s1, "upgrade_response_turrets")
        s3 == call_append(s2, "upgrade_response_turrets", "", SCORED_REF, TRUE)
        s4 == call_append(s3, "response_turrets", "TURRET", SCORED_REF, FALSE)
        s5 == call_prioritize(s4, "response_turrets")
    IN  call_prioritize(s5, "upgrade_response_turrets")

build_reactive_defense(st) ==
    LET s1 == call_remove(st, "response_turrets")
        s2 == call_remove(s1, "upgrade_response_turrets")
        s3 == call_append(s2, "upgrade_response_turrets", "", SCORED_REF, TRUE)
        s4 == call_append(s3, "response_turrets", "TURRET", SCORED_REF, FALSE)
        s5 == call_prioritize(s4, "upgrade_response_turrets")
    IN  call_prioritize(s5, "response_turrets")

incremental_turret(st, turn) ==
    IF turn > 4
    THEN Bind(st, LAMBDA s :
            LET turret_build == [x \in 1..(turn - 3) |-> <<23 - (x - 1), 13>>]
                ref == FreshRef(s.heap)
                s1  == call_append([s EXCEPT !.heap = Alloc(@, turret_build)],
                                   "upgrade_front_turrets", "", ref, TRUE)
            IN  call_append(s1, "upgrade_front_turrets", "", ref, FALSE))
    ELSE st

(* try: least_damage_spawn_location; attempt_spawn  except ValueError: ... *)
send_scouts(st, find_path) ==
    IF least_damage_spawn_location(ScoutOptions, find_path, 1).error = "ValueError"
    THEN st
    ELSE call_engine(st, "attempt_spawn")

(* the two appends that share factory_locations *)
append_factories(st) ==
    Bind(st, LAMBDA s :
        LET factory_locations == <<(<<13, 2>>), (<<14, 2>>), (<<13, 3>>), (<<14, 3>>)>>
            ref == FreshRef(s.heap)
            s1  == call_append([s EXCEPT !.heap = Alloc(@, factory_locations)],
                               "upgrade_factories", "", ref, TRUE)
        IN  call_append(s1, "extra_factories", "FACTORY", ref, FALSE))

call_attempt_actions(st, turn) ==
    Bind(st, LAMBDA s :
        IF s.error # "" THEN s
        ELSE Called(attempt_actions(s, turn), "attempt_actions"))

(* variant: the pass is made before the turrets of the turn are declared *)
dynamic_strategy_early(st, turn, health_changed, find_path) ==
    LET s1 == IF health_changed THEN build_reactive_defense(st) ELSE st
        s2 == IF turn < 3 THEN append_factories(call_engine(s1, "attempt_spawn"))
              ELSE s1
        s3 == IF turn = 3 THEN append_factories(s2) ELSE s2
        s4 == call_attempt_actions(s3, turn)
    IN  IF turn >= 3
        THEN LET s5 == incremental_turret(s4, turn)
             IN  IF turn % 2 = 1 THEN send_scouts(s5, find_path) ELSE s5
        ELSE s4

dynamic_strategy(st, turn, health_changed, find_path) ==
    LET s1 == IF health_changed THEN build_reactive_defense(st) ELSE st
        s2 == IF turn < 3 THEN append_factories(call_engine(s1, "attempt_spawn"))
              ELSE s1
        s3 == IF turn = 3 THEN append_factories(s2) ELSE s2
        s4 == IF turn >= 3
              THEN LET s5 == incremental_turret(s3, turn)
                   IN  IF turn % 2 = 1 THEN send_scouts(s5, find_path) ELSE s5
              ELSE s3
    IN  call_attempt_actions(s4, turn)

on_turn(st, turn, health_changed, find_path) ==
    LET entered == [queue |-> st.queue, heap |-> st.heap,
                    all_defenses |-> st.all_defenses, change_flag |-> st.change_flag,
                    trace |-> <<>>, error |-> ""]
    IN  call_engine(dynamic_strategy(entered, turn, health_changed, find_path),
                    "submit_turn")

(* The engine sends turn 0 after the game start and then the turns in    *)
(* order; my_health differs from cached_health exactly when a breach      *)
(* frame came since the turn before.                                      *)
OnTurn(blocked, budget, find_path) ==
    LET turn == IF last.op = "game_start" THEN 0 ELSE turn_number + 1
    IN  /\ last.op \in {"game_start", "on_turn", "breach"}
        /\ turn <= MaxTurn
        /\ \E post \in {on_turn(Current, turn, last.op = "breach", find_path)} :
              /\ Becomes(post)
              /\ calls' = IF \E k \in DOMAIN post.trace :
                                post.trace[k] = "attempt_actions"
                          THEN WalkQueue(post.queue, post.heap, 1, blocked, budget, <<>>)
                          ELSE <<>>
              /\ last' = [op |-> "on_turn", turn |-> turn, was_dirty |-> change_flag,
                          health_changed |-> (last.op = "breach"),
                          trace |-> post.trace, error |-> post.error]
        /\ turn_number' = turn
        /\ UNCHANGED <<ncalls, all_locations, game_map>>

NextTurn ==
    \/ OnGameStart
    \/ \E blocked \in SUBSET Cells, budget \in 0..MaxBudget,
          find_path \in ScoutAnswers :
             OnTurn(blocked, budget, find_path)
    \/ /\ last.op \in {"on_turn", "breach"}
       /\ \E location \in Cells : OnBreach(location)

SpecTurn == Init /\ [][NextTurn]_vars

(* ---------------------------------------------------------------------- *)
(* build_reactive_defense on its own: the policy calls it on queues that  *)
(* hold its two actions, one of them, or neither, after any breaches       *)
(* ---------------------------------------------------------------------- *)
ReactiveIds == {"initial_turrets", "response_turrets", "upgrade_response_turrets"}

(* self.build_reactive_defense(): the call record keeps the breach log as *)
(* the call found it and the exception that left the call, if any          *)
BuildReactiveDefense ==
    LET entered == [queue |-> action_queue, heap |-> heap,
                    all_defenses |-> all_defenses, change_flag |-> change_flag,
                    trace |-> <<>>, error |-> ""]
    IN  /\ Step
        /\ \E post \in {build_reactive_defense(entered)} :
              /\ Becomes(post)
              /\ last' = [NoCall EXCEPT !.op = "build_reactive_defense",
                                        !.locations = heap[SCORED_REF],
                                        !.was_dirty = change_flag,
                                        !.index = IndexOfFirst(action_queue,
                                                               "response_turrets"),
                                        !.error = post.error]
        /\ calls' = <<>>
        /\ UNCHANGED turn_number

NextReactive ==
    \/ OnGameStart
    \/ \E id \in ReactiveIds, tpl \in Templates, locations \in CellLists :
          AppendAction(id, tpl, locations)
    \/ \E location \in Cells : OnBreach(location)
    \/ BuildReactiveDefense

SpecReactive == Init /\ [][NextReactive]_vars

(* ---------------------------------------------------------------------- *)
(* The codec on its own: point_hash and inv_point_hash are called on      *)
(* coordinates and keys of the arena and one step beyond it               *)
(* ---------------------------------------------------------------------- *)
Coordinates == (0..ARENA_SIZE) \X (0..ARENA_SIZE)

Keys == 0..(ARENA_SIZE * ARENA_SIZE)

queue_vars == <<action_queue, heap, all_defenses, change_flag, turn_number,
                calls, ncalls, all_locations, game_map>>

(* self.point_hash(location), then self.inv_point_hash of the key *)
PointHash(location) ==
    /\ last' = [op |-> "point_hash", location |-> location,
                hashed |-> point_hash(location),
                decoded |-> inv_point_hash(point_hash(location))]
    /\ UNCHANGED queue_vars

(* self.inv_point_hash(hashed_location), then self.point_hash of the cell *)
InvPointHash(hashed_location) ==
    /\ last' = [op |-> "inv_point_hash", hashed |-> hashed_location,
                decoded |-> inv_point_hash(hashed_location),
                rehashed |-> point_hash(inv_point_hash(hashed_location))]
    /\ UNCHANGED queue_vars

NextCodec ==
    \/ \E location \in Coordinates : PointHash(location)
    \/ \E hashed_location \in Keys : InvPointHash(hashed_location)

SpecCodec == Init /\ [][NextCodec]_vars

(* ---------------------------------------------------------------------- *)
(* The startup variant (src/startup_algo/algo_strategy.py) keeps no queue *)
(* but a set of encoded cells, all_locations, and asks for an upgrade of  *)
(* each of them at the end of every turn. Its codec is the codec above.   *)
(* ---------------------------------------------------------------------- *)
(* cells of the literal lists the startup policy tracks *)
StartupCells == {<<3, 12>>, <<24, 12>>, <<0, 13>>}

RECURSIVE StartupListsUpTo(_)
StartupListsUpTo(n) ==
    IF n = 0 THEN {<<>>}
    ELSE LET S == StartupListsUpTo(n - 1)
         IN  S \cup {Append(s, c) : s \in {t \in S : Len(t) = n - 1},
                                    c \in StartupCells}

(* the orders in which a for loop may run through a Python set *)
Orders(S) ==
    {order \in [1..Cardinality(S) -> S] :
        \A m, n \in DOMAIN order : m # n => order[m] # order[n]}

(* for location in locations: self.all_locations.add(self.point_hash(location)) *)
add_locations(tracked, locations) == tracked \cup HashSet(locations)

(* variant: the loop goes on after a request that returned 0 *)
RECURSIVE upgrade_all_no_break(_, _, _, _, _)
upgrade_all_no_break(order, i, blocked, budget, log) ==
    IF i > Len(order) THEN log
    ELSE LET location == inv_point_hash(order[i])
             result   == EngineResult(blocked, budget, location)
             call     == [kind |-> "upgrade", unit_type |-> "", location |-> location,
                          result |-> result, id |-> "", pos |-> i]
         IN  upgrade_all_no_break(order, i + 1, blocked, budget - result,
                                  Append(log, call))

(* for location_hash in self.all_locations: ... if attempt_upgrade(location) == 0: break *)
RECURSIVE upgrade_all(_, _, _, _, _)
upgrade_all(order, i, blocked, budget, log) ==
    IF i > Len(order) THEN log
    ELSE LET location == inv_point_hash(order[i])
             result   == EngineResult(blocked, budget, location)
             call     == [kind |-> "upgrade", unit_type |-> "", location |-> location,
                          result |-> result, id |-> "", pos |-> i]
         IN  IF result = 0 THEN Append(log, call)
             ELSE upgrade_all(order, i + 1, blocked, budget - result, Append(log, call))

startup_frame == <<action_queue, heap, all_defenses, change_flag, turn_number,
                   game_map>>

(* self.add_locations(locations) *)
AddLocations(locations) ==
    /\ ncalls < MaxCalls
    /\ ncalls' = ncalls + 1
    /\ all_locations' = add_locations(all_locations, locations)
    /\ calls' = <<>>
    /\ last' = [op |-> "add_locations", locations |-> locations]
    /\ UNCHANGED startup_frame

(* self.upgrade_all(game_state) against the engine of the turn *)
UpgradeAll(order, blocked, budget) ==
    /\ ncalls < MaxCalls
    /\ ncalls' = ncalls + 1
    /\ order \in Orders(all_locations)
    /\ calls' = upgrade_all(order, 1, blocked, budget, <<>>)
    /\ last' = [op |-> "upgrade_all", order |-> order]
    /\ UNCHANGED all_locations
    /\ UNCHANGED startup_frame

NextStartup ==
    \/ \E locations \in StartupListsUpTo(MaxLen) : AddLocations(locations)
    \/ \E order \in Orders(all_locations), blocked \in SUBSET StartupCells,
          budget \in 0..MaxWalkBudget :
             UpgradeAll(order, blocked, budget)

SpecStartup == Init /\ [][NextStartup]_vars

(* ---------------------------------------------------------------------- *)
(* A match in which the units stay: the policy queues its actions, then   *)
(* every turn brings one execution pass against an engine that remembers  *)
(* what it has placed. A placement request returns 1 exactly when the     *)
(* cell is empty and the resources of the turn are not used up, an        *)
(* upgrade request exactly when the cell holds a unit that is not yet     *)
(* upgraded and the resources are not used up; every success costs one.   *)
(* ---------------------------------------------------------------------- *)
EngineAnswer(map, budget, upgrade, location) ==
    IF budget > 0 /\ (IF upgrade
                      THEN location \in map.units \ map.upgraded
                      ELSE location \notin map.units)
    THEN 1 ELSE 0

EngineServes(map, upgrade, location, result) ==
    IF result = 0 THEN map
    ELSE IF upgrade THEN [map EXCEPT !.upgraded = @ \cup {location}]
         ELSE [map EXCEPT !.units = @ \cup {location}]

(* one request of the walk: st carries the count of successes of the     *)
(* action, the resources left, the game map and the calls made so far     *)
PlayRequest(action, locations, j, st) ==
    LET result == EngineAnswer(st.map, st.budget, action.upgrade, locations[j])
        call   == [kind      |-> IF action.upgrade THEN "upgrade" ELSE "spawn",
                   unit_type |-> IF action.upgrade THEN "" ELSE action.unit_type,
                   location  |-> locations[j],
                   result    |-> result,
                   id        |-> action.id,
                   pos       |-> j]
    IN  [taken  |-> st.taken + result,
         budget |-> st.budget - result,
         map    |-> EngineServes(st.map, action.upgrade, locations[j], result),
         log    |-> Append(st.log, call),
         result |-> result]

(* variant: the walk of an action ends at the first request that returns 0 *)
RECURSIVE PlayAction_stop_at_failure(_, _, _, _)
PlayAction_stop_at_failure(action, locations, j, st) ==
    IF j > Len(locations) THEN st
    ELSE Bind(PlayRequest(action, locations, j, st), LAMBDA s :
            IF s.taken >= action.max_num \/ s.result = 0 THEN s
            ELSE PlayAction_stop_at_failure(action, locations, j + 1, s))

(* for location in action['locations']: ... if taken_actions >= max_actions: break *)
RECURSIVE PlayAction(_, _, _, _)
PlayAction(action, locations, j, st) ==
    IF j > Len(locations) THEN st
    ELSE Bind(PlayRequest(action, locations, j, st), LAMBDA s :
            IF s.taken >= action.max_num THEN s
            ELSE PlayAction(action, locations, j + 1, s))

(* for action in self.action_queue: taken_actions = 0 ... *)
RECURSIVE PlayQueue(_, _, _, _)
PlayQueue(queue, h, i, st) ==
    IF i > Len(queue) THEN st
    ELSE Bind(PlayAction(queue[i], h[queue[i].locations], 1, [st EXCEPT !.taken = 0]),
              LAMBDA s : PlayQueue(queue, h, i + 1, s))

(* utility.attempt_actions(game_state) of one turn; the resources of the *)
(* turn pay for at least one request                                     *)
PlayTurn(turn, budget) ==
    /\ turn \in NextTurns
    /\ turn_number' = turn
    /\ last' = [NoCall EXCEPT !.op = "execute", !.turn = turn,
                              !.was_dirty = change_flag]
    /\ UNCHANGED <<ncalls, all_locations>>
    /\ \E post \in {attempt_actions(Current, turn)} :
          \E played \in {PlayQueue(post.queue, post.heap, 1,
                                    [taken |-> 0, budget |-> budget, map |-> game_map,
                                     log |-> <<>>, result |-> 0])} :
             \E n \in {Normalize(post)} :
                /\ action_queue' = n.queue
                /\ heap' = n.heap
                /\ all_defenses' = n.all_defenses
                /\ change_flag' = n.change_flag
                /\ calls' = played.log
                /\ game_map' = played.map

PlayTurns == \E turn \in Turns, budget \in 1..MaxWalkBudget : PlayTurn(turn, budget)

(* the policy queues each of its actions once, before the first turn,   *)
(* and leaves the queue alone from then on                                *)
NextCompletion ==
    \/ /\ last.op # "execute"
       /\ \E id \in UserIds, tpl \in WalkTemplates, locations \in CellLists :
             /\ IndexOfFirst(action_queue, id) = 0
             /\ AppendAction(id, tpl, locations)
    \/ PlayTurns

(* the engine asks for a turn as long as the match runs *)
SpecCompletion == Init /\ [][NextCompletion]_vars /\ WF_vars(PlayTurns)

(* ---------------------------------------------------------------------- *)
(* Vocabulary of the properties                                           *)
(* ---------------------------------------------------------------------- *)
Before == View(action_queue, heap)

After == View(action_queue', heap')

CellSet(locations) == {locations[i] : i \in DOMAIN locations}

IdsOf(view) == [i \in DOMAIN view |-> view[i].id]

(* the actions of a view whose id differs from id, in queue order *)
Others(view, id) == SelectSeq(view, LAMBDA a : a.id # id)

(* C1: no cell is in the cells of two distinct placement actions of the  *)
(* queue, in every reachable state.                                       *)
C1_PlacementExclusive ==
    \A i, j \in DOMAIN action_queue :
        (/\ i # j
         /\ action_queue[i].upgrade = FALSE
         /\ action_queue[j].upgrade = FALSE)
        => CellSet(Before[i].locations) \cap CellSet(Before[j].locations) = {}

(* C2: no two actions of the queue have the same id, the reserved id of  *)
(* the synthetic upgrade-all action included, in every reachable state.   *)
C2_IdsUnique ==
    \A i, j \in DOMAIN action_queue :
        i # j => action_queue[i].id # action_queue[j].id

(* an append over an id already queued, with the synthetic action queued *)
C2_Witness ==
    /\ last.op = "append"
    /\ last.index # 0
    /\ \E i \in DOMAIN action_queue :
          action_queue[i].id = UPGRADE_ALL /\ action_queue[i].locations = all_defenses
    /\ Len(action_queue) >= 3

(* C3: a placement append B trims every other placement action A that   *)
(* shares a cell with the requested cells: A keeps exactly its            *)
(* non-contested cells in their order, B holds exactly the requested      *)
(* cells in the requested order.                                          *)
C3_OverlapTrim ==
    [][(last'.op = "append" /\ last'.upgrade = FALSE) =>
         \A i \in DOMAIN action_queue :
            LET A == Before[i]
                requested == last'.locations
            IN  (/\ A.upgrade = FALSE
                 /\ A.id # last'.id
                 /\ CellSet(A.locations) \cap CellSet(requested) # {})
                => /\ \E k \in DOMAIN After :
                         /\ After[k].id = A.id
                         /\ After[k].locations =
                               SelectSeq(A.locations,
                                         LAMBDA c : c \notin CellSet(requested))
                   /\ After[Len(After)].locations = requested]_vars

(* C4: append("x", ...) followed by append("x", newCells, ...) leaves    *)
(* exactly one action "x", holding newCells and the unit type, upgrade    *)
(* flag and cap of the second call.                                       *)
C4_Overwrite ==
    [][(last.op = "append" /\ last'.op = "append" /\ last'.id = last.id) =>
         /\ Cardinality({k \in DOMAIN After : After[k].id = last'.id}) = 1
         /\ \A k \in DOMAIN After :
               After[k].id = last'.id =>
                  /\ After[k].locations = last'.locations
                  /\ After[k].unit_type = last'.unit_type
                  /\ After[k].upgrade = last'.upgrade
                  /\ After[k].max_num = last'.max_num]_vars

(* C5: right after append(id, ...) the last action of the queue has that *)
(* id, and the actions with another id are in the order they had before.  *)
C5_AppendAtTail ==
    [][last'.op = "append" =>
         /\ Len(After) >= 1
         /\ After[Len(After)].id = last'.id
         /\ IdsOf(Others(After, last'.id)) = IdsOf(Others(Before, last'.id))]_vars

(* an append over the id of the head of a queue with two other actions *)
C5_Witness ==
    /\ last.op = "append"
    /\ last.index = 1
    /\ Len(action_queue) >= 3
    /\ action_queue[Len(action_queue)].id = last.id

(* C6: prioritize("x") on a queue holding "x" puts "x" at index 0, keeps *)
(* the order of the other actions and changes no field of any action.     *)
C6_Prioritize ==
    [][(last'.op = "prioritize" /\ IndexOfFirst(action_queue, last'.id) # 0) =>
         /\ last'.error = ""
         /\ After[1].id = last'.id
         /\ After[1] = Before[IndexOfFirst(action_queue, last'.id)]
         /\ Others(After, last'.id) = Others(Before, last'.id)
         /\ Len(After) = Len(Before)]_vars

(* an action was moved to the head from the third place or later *)
C6_Witness ==
    /\ last.op = "prioritize"
    /\ last.index >= 3
    /\ action_queue[1].id = last.id

(* C7: prioritize(id) with an id that is not queued fails with           *)
(* ValueError and leaves the queue, its order and the flag as they were.  *)
C7_PrioritizeNotFound ==
    [][(last'.op = "prioritize" /\ IndexOfFirst(action_queue, last'.id) = 0) =>
         /\ last'.error = "ValueError"
         /\ After = Before
         /\ change_flag' = change_flag]_vars

(* the call failed on a non-empty queue whose flag was clear *)
C7_Witness ==
    /\ last.op = "prioritize"
    /\ last.error = "ValueError"
    /\ Len(action_queue) >= 1
    /\ ~last.was_dirty
    /\ ~change_flag

(* C8: remove(id) with an id that is not queued raises nothing and       *)
(* leaves the queue, its order and the flag as they were.                 *)
C8_RemoveNotFound ==
    [][(last'.op = "remove" /\ IndexOfFirst(action_queue, last'.id) = 0) =>
         /\ last'.error = ""
         /\ After = Before
         /\ change_flag' = change_flag]_vars

(* the call found nothing on a non-empty queue whose flag was clear *)
C8_Witness ==
    /\ last.op = "remove"
    /\ last.index = 0
    /\ Len(action_queue) >= 1
    /\ ~last.was_dirty
    /\ ~change_flag

(* C9: remove(id) with a queued id deletes exactly that action: the      *)
(* queue is one shorter, holds no action of that id, and every other      *)
(* action keeps its place among the others and all its fields.            *)
C9_RemoveExactly ==
    [][(last'.op = "remove" /\ IndexOfFirst(action_queue, last'.id) # 0) =>
         /\ Len(After) = Len(Before) - 1
         /\ \A k \in DOMAIN After : After[k].id # last'.id
         /\ After = ListPop(Before, IndexOfFirst(action_queue, last'.id))]_vars

(* a placement action was removed while the synthetic action held cells *)
C9_Witness ==
    /\ last.op = "remove"
    /\ last.index # 0
    /\ last.id # UPGRADE_ALL
    /\ Len(action_queue) >= 2
    /\ \E i \in DOMAIN action_queue :
          /\ action_queue[i].id = UPGRADE_ALL
          /\ action_queue[i].locations = all_defenses
          /\ Len(heap[all_defenses]) >= 2

(* C10: right after an append, a prioritize that found its id or a       *)
(* remove that found its id, the flag is set.                             *)
C10_MutatorsMarkDirty ==
    (\/ last.op = "append"
     \/ (last.op = "prioritize" /\ last.index # 0)
     \/ (last.op = "remove" /\ last.index # 0))
    => change_flag = TRUE

(* a prioritize found its id on a queue whose flag was clear *)
C10_Witness ==
    /\ last.op = "prioritize"
    /\ last.index # 0
    /\ ~last.was_dirty
    /\ change_flag

(* C11: an upgrade append changes the cells of no queued action with     *)
(* another id, and a placement append changes the cells of no queued      *)
(* upgrade action, whatever cells they share.                             *)
C11_UpgradeExempt ==
    [][last'.op = "append" =>
         \A i \in DOMAIN action_queue :
            LET A == Before[i]
            IN  (A.id # last'.id /\ (last'.upgrade \/ A.upgrade))
                => \E k \in DOMAIN After :
                      After[k].id = A.id /\ After[k].locations = A.locations]_vars

(* C12: right after an execute on a dirty queue there is exactly one     *)
(* upgrade-all action, and its cells are the cells of the non-upgrade     *)
(* actions, each once: no cell twice, no cell outside the non-upgrade     *)
(* actions.                                                               *)
C12_RegeneratedUnion ==
    (last.op = "execute" /\ last.was_dirty) =>
        /\ Cardinality({i \in DOMAIN action_queue :
                           action_queue[i].id = UPGRADE_ALL}) = 1
        /\ \A i \in DOMAIN action_queue :
              action_queue[i].id = UPGRADE_ALL =>
                 LET cells == Before[i].locations
                 IN  /\ CellSet(cells) =
                          UNION {CellSet(Before[k].locations) :
                                   k \in {n \in DOMAIN action_queue :
                                             ~action_queue[n].upgrade}}
                     /\ \A m, n \in DOMAIN cells : m # n => cells[m] # cells[n]

(* C13: in every reachable state, when the flag is clear and the         *)
(* upgrade-all action is queued, the set of its cells is the set of the   *)
(* cells of the non-upgrade actions.                                      *)
C13_CleanIsCoherent ==
    ~change_flag =>
        \A i \in DOMAIN action_queue :
            action_queue[i].id = UPGRADE_ALL =>
               CellSet(Before[i].locations) =
                  UNION {CellSet(Before[k].locations) :
                           k \in {n \in DOMAIN action_queue :
                                     ~action_queue[n].upgrade}}

(* C14: right after every execute the flag is clear, whether it was set  *)
(* or clear before.                                                       *)
C14_ExecuteClearsFlag ==
    last.op = "execute" => change_flag = FALSE

(* an execute found the flag set, refreshed a non-empty queue and left   *)
(* the flag clear                                                         *)
C14_Witness ==
    /\ last.op = "execute"
    /\ last.was_dirty
    /\ Len(action_queue) >= 2
    /\ ~change_flag

C16_CapFollowsTurn ==
    last.op = "execute" =>
        \A i \in DOMAIN action_queue :
            action_queue[i].id = UPGRADE_ALL =>
               action_queue[i].max_num =
                  (IF last.turn < 10 THEN 1 ELSE IF last.turn < 15 THEN 2 ELSE 4)

(* the calls of the latest pass issued for the action id, in order *)
CallsOf(id) == SelectSeq(calls, LAMBDA c : c.id = id)

(* number of calls of the latest pass for the action id that returned 1 *)
Successes(id) == Len(SelectSeq(calls, LAMBDA c : c.id = id /\ c.result = 1))

(* C17: right after every execute, for every action of the queue and     *)
(* every cap from 0 on, the successful calls issued for the action in     *)
(* the pass are at most its cap.                                          *)
C17_CapBound ==
    last.op = "execute" =>
        \A i \in DOMAIN action_queue :
            Successes(action_queue[i].id) <= action_queue[i].max_num

(* C18: right after every execute, an action of cap k >= 1 with n cells  *)
(* whose calls all returned 1 got exactly min(k, n) calls, on its first   *)
(* min(k, n) cells in their order, and none on the cells after them.      *)
C18_CapTruncates ==
    last.op = "execute" =>
        \A i \in DOMAIN action_queue :
            LET k     == action_queue[i].max_num
                cells == Before[i].locations
                mine  == CallsOf(action_queue[i].id)
                m     == Min({k, Len(cells)})
            IN  (k >= 1 /\ \A c \in DOMAIN mine : mine[c].result = 1)
                => /\ Len(mine) = m
                   /\ \A c \in 1..m : mine[c].location = cells[c] /\ mine[c].pos = c

(* a pass in which one action stopped at its cap before its last cell    *)
(* and another reached the end of its cells below its cap                 *)
C18_Witness ==
    /\ last.op = "execute"
    /\ \E i, j \in DOMAIN action_queue :
          /\ action_queue[i].max_num >= 1
          /\ Len(CallsOf(action_queue[i].id)) = action_queue[i].max_num
          /\ Len(Before[i].locations) > action_queue[i].max_num
          /\ \A c \in DOMAIN calls :
                calls[c].id = action_queue[i].id => calls[c].result = 1
          /\ Len(Before[j].locations) >= 1
          /\ Len(CallsOf(action_queue[j].id)) = Len(Before[j].locations)
          /\ Len(Before[j].locations) < action_queue[j].max_num
          /\ \A c \in DOMAIN calls :
                calls[c].id = action_queue[j].id => calls[c].result = 1

(* position in the queue of the action id *)
QueueIndex(id) == IndexOfFirst(action_queue, id)

(* C19: right after every execute, the calls of the pass are in queue    *)
(* order of their actions, and the calls of one action are in the order   *)
(* of its cells: every call of an earlier action precedes every call of   *)
(* a later one.                                                           *)
C19_WalkOrder ==
    last.op = "execute" =>
        /\ \A c \in DOMAIN calls :
              /\ QueueIndex(calls[c].id) # 0
              /\ calls[c].pos \in DOMAIN Before[QueueIndex(calls[c].id)].locations
              /\ calls[c].location =
                    Before[QueueIndex(calls[c].id)].locations[calls[c].pos]
        /\ \A c, d \in DOMAIN calls :
              c < d =>
                 \/ QueueIndex(calls[c].id) < QueueIndex(calls[d].id)
                 \/ /\ calls[c].id = calls[d].id
                    /\ calls[c].pos < calls[d].pos

(* a pass with two calls for one user action, then calls for a second    *)
(* user action and for the upgrade-all action                             *)
C19_Witness ==
    /\ last.op = "execute"
    /\ Len(action_queue) >= 3
    /\ \E c, d, e, f \in DOMAIN calls :
          /\ c < d /\ d < e /\ e < f
          /\ calls[c].id = calls[d].id
          /\ calls[d].id # calls[e].id
          /\ calls[e].id # calls[f].id
          /\ calls[f].id = UPGRADE_ALL

(* C20: right after every execute, every call of the pass issued for an  *)
(* upgrade action is an upgrade request for its cell that carries no      *)
(* unit type, and every call issued for a placement action is a           *)
(* placement request of the action's unit type at its cell.               *)
C20_RequestKind ==
    last.op = "execute" =>
        \A c \in DOMAIN calls :
            LET i == QueueIndex(calls[c].id)
            IN  /\ i # 0
                /\ calls[c].location = Before[i].locations[calls[c].pos]
                /\ IF action_queue[i].upgrade
                   THEN calls[c].kind = "upgrade" /\ calls[c].unit_type = ""
                   ELSE /\ calls[c].kind = "spawn"
                        /\ calls[c].unit_type = action_queue[i].unit_type

(* a pass with an upgrade request for an action that names a unit type   *)
(* and a placement request for another action                             *)
C20_Witness ==
    /\ last.op = "execute"
    /\ \E c, d \in DOMAIN calls :
          /\ calls[c].kind = "upgrade"
          /\ action_queue[QueueIndex(calls[c].id)].unit_type = "FACTORY"
          /\ action_queue[QueueIndex(calls[c].id)].upgrade
          /\ calls[d].kind = "spawn"
          /\ calls[d].unit_type = "TURRET"

(* the latest pass issued a call for position j of the action id *)
Attempted(id, j) == \E c \in DOMAIN calls : calls[c].id = id /\ calls[c].pos = j

(* successes of the latest pass on the positions before j of the action id *)
SuccessesBefore(id, j) ==
    Len(SelectSeq(calls, LAMBDA c : c.id = id /\ c.pos < j /\ c.result = 1))

(* C21: right after every execute, for every action of the queue, the    *)
(* cell at a position of the action was attempted in the pass if and      *)
(* only if the successes of the pass on the earlier positions of the      *)
(* action are below its cap; so a zero result stops neither the action    *)
(* nor the later actions.                                                 *)
C21_SkipAndContinue ==
    last.op = "execute" =>
        \A i \in DOMAIN action_queue :
            \A j \in DOMAIN Before[i].locations :
                Attempted(action_queue[i].id, j)
                    <=> SuccessesBefore(action_queue[i].id, j) < action_queue[i].max_num

(* C22: an execute, whatever the engine answers, leaves every action     *)
(* whose id is not the reserved id of the upgrade-all action in the       *)
(* queue, in the same relative order, with the same unit type, cells,     *)
(* upgrade field and cap.                                                 *)
C22_ExecuteKeepsActions ==
    [][last'.op = "execute" =>
          Others(After, UPGRADE_ALL) = Others(Before, UPGRADE_ALL)]_vars

(* a pass over a dirty queue of two or more user actions holding cells,  *)
(* with a request that succeeded and a request that failed                *)
C22_Witness ==
    /\ last.op = "execute"
    /\ last.was_dirty
    /\ \E i, j \in DOMAIN action_queue :
          /\ i # j
          /\ action_queue[i].id # UPGRADE_ALL /\ action_queue[j].id # UPGRADE_ALL
          /\ ~action_queue[i].upgrade
          /\ Len(Before[i].locations) >= 1
    /\ \E c, d \in DOMAIN calls : calls[c].result = 1 /\ calls[d].result = 0

(* coordinates of the arena: both components from 0 to ARENA_SIZE - 1 *)
ValidCoordinates == (0..(ARENA_SIZE - 1)) \X (0..(ARENA_SIZE - 1))

(* C23: for every coordinate of the arena, decoding its key gives the    *)
(* coordinate back, the key is x + 28 * y, and no other coordinate of the *)
(* arena has the same key.                                                *)
C23_CodecRoundTrip ==
    (last.op = "point_hash" /\ last.location \in ValidCoordinates) =>
        /\ last.decoded = last.location
        /\ last.hashed = last.location[1] + 28 * last.location[2]
        /\ \A c \in ValidCoordinates :
              point_hash(c) = last.hashed => c = last.location

(* the far corner of the arena was encoded *)
C23_Witness ==
    /\ last.op = "point_hash"
    /\ last.location = <<ARENA_SIZE - 1, ARENA_SIZE - 2>>
    /\ last.hashed = 755

(* C24: for every key from 0 to 28 * 28 - 1, the decoded coordinate has  *)
(* both components in 0..27 and encoding it gives the key back.           *)
C24_CodecBijection ==
    (last.op = "inv_point_hash" /\ last.hashed \in 0..(ARENA_SIZE * ARENA_SIZE - 1)) =>
        /\ last.decoded \in ValidCoordinates
        /\ last.rehashed = last.hashed

(* the largest key was decoded *)
C24_Witness ==
    /\ last.op = "inv_point_hash"
    /\ last.hashed = ARENA_SIZE * ARENA_SIZE - 1
    /\ last.decoded = <<ARENA_SIZE - 1, ARENA_SIZE - 1>>

(* positions of the candidates of the latest selector call that have a   *)
(* route                                                                  *)
Routed == {i \in DOMAIN last.location_options :
              last.find_path[last.location_options[i]].found}

(* total damage on the route of the candidate at position i *)
TotalDamage(i) ==
    PathDamage(last.find_path[last.location_options[i]].path, last.damage_i, 1)

(* C25: when at least one candidate has a route, the selector returns a  *)
(* candidate that has a route and whose total damage is at most the       *)
(* total damage of every candidate that has a route.                      *)
C25_LeastDamage ==
    (last.op = "least_damage" /\ Routed # {}) =>
        \E r \in Routed :
            /\ last.location = last.location_options[r]
            /\ \A i \in Routed : TotalDamage(r) <= TotalDamage(i)

(* C26: whenever the selector returns a coordinate, it is a candidate    *)
(* that has a route; so when exactly one candidate has a route, that one  *)
(* is returned, whatever its damage and position.                         *)
C26_NeverUnrouted ==
    (last.op = "least_damage" /\ last.error = "") =>
        \E r \in Routed : last.location = last.location_options[r]

(* C27: the selector fails with ValueError exactly when no candidate has *)
(* a route, the empty candidate sequence included; otherwise it returns   *)
(* one of the candidates without error.                                   *)
C27_NoViablePath ==
    last.op = "least_damage" =>
        /\ last.error = "ValueError" <=> Routed = {}
        /\ Routed # {} =>
              /\ last.error = ""
              /\ \E i \in DOMAIN last.location_options :
                    last.location = last.location_options[i]

(* a call with two or more candidates, none with a route, failed *)
C27_Witness ==
    /\ last.op = "least_damage"
    /\ Len(last.location_options) >= 2
    /\ Routed = {}
    /\ last.error = "ValueError"

(* C28: when several candidates with a route share the least total       *)
(* damage, the selector returns the one that comes first among the        *)
(* candidates, also when candidates without a route come before or        *)
(* between them.                                                          *)
C28_TieBreakFirst ==
    (last.op = "least_damage" /\ Routed # {}) =>
        LET least  == Min({TotalDamage(i) : i \in Routed})
            minima == {i \in Routed : TotalDamage(i) = least}
        IN  Cardinality({last.location_options[i] : i \in minima}) >= 2
            => last.location = last.location_options[Min(minima)]

(* number of cell positions of the actions from position i of the queue on *)
RECURSIVE TotalCells(_)
TotalCells(i) ==
    IF i > Len(action_queue) THEN 0
    ELSE Len(Before[i].locations) + TotalCells(i + 1)

(* C30: right after every execute, no cell position of an action got two *)
(* calls in the pass, every call is on a cell position of a queued        *)
(* action, and the calls of the pass are at most the cell positions of    *)
(* the queue, the upgrade-all action included.                            *)
C30_NoRetries ==
    last.op = "execute" =>
        /\ \A c, d \in DOMAIN calls :
              (calls[c].id = calls[d].id /\ calls[c].pos = calls[d].pos) => c = d
        /\ \A c \in DOMAIN calls :
              /\ QueueIndex(calls[c].id) # 0
              /\ calls[c].pos \in DOMAIN Before[QueueIndex(calls[c].id)].locations
        /\ Len(calls) <= TotalCells(1)

(* a pass in which a request failed, a later request was issued, and     *)
(* some cell position was left out                                        *)
C30_Witness ==
    /\ last.op = "execute"
    /\ \E c, d \in DOMAIN calls : c < d /\ calls[c].result = 0
    /\ Len(calls) >= 3
    /\ Len(calls) < TotalCells(1)

(* positions of the calls named name in the trace of the latest turn *)
TracePositions(name) == {k \in DOMAIN last.trace : last.trace[k] = name}

C31_RefreshedCap ==
    (last.op = "execute" /\ last.was_dirty) =>
        /\ \E i \in DOMAIN action_queue : action_queue[i].id = UPGRADE_ALL
        /\ \A i \in DOMAIN action_queue :
              action_queue[i].id = UPGRADE_ALL =>
                 /\ action_queue[i].upgrade = TRUE
                 /\ action_queue[i].unit_type = ""
                 /\ action_queue[i].max_num =
                       (IF last.turn < 10 THEN 1 ELSE IF last.turn < 15 THEN 2 ELSE 4)

(* a refresh at turn 10, after a pass at an earlier turn *)
C31_Witness ==
    /\ last.op = "execute"
    /\ last.was_dirty
    /\ last.turn = 10
    /\ Len(action_queue) >= 2
    /\ \E i \in DOMAIN action_queue :
          action_queue[i].id = UPGRADE_ALL /\ action_queue[i].max_num = 2

(* C32: no step removes or reorders an entry of the breach log: the log  *)
(* before the step is a prefix of the log after it.                       *)
C32_BreachLogAppendOnly ==
    [][/\ Len(heap'[SCORED_REF]) >= Len(heap[SCORED_REF])
       /\ SubSeq(heap'[SCORED_REF], 1, Len(heap[SCORED_REF])) = heap[SCORED_REF]]_vars

(* C33: an execute that finds the flag clear leaves the whole queue, the *)
(* upgrade-all action with its cells and cap included, and the flag as    *)
(* they were.                                                             *)
C33_CleanExecuteIsIdle ==
    [][(last'.op = "execute" /\ ~last'.was_dirty) =>
          /\ After = Before
          /\ change_flag' = change_flag]_vars

(* a second pass, at a later turn, over a clean queue that holds a user  *)
(* action and the upgrade-all action, with a request that succeeded       *)
C33_Witness ==
    /\ last.op = "execute"
    /\ ~last.was_dirty
    /\ last.turn >= 10
    /\ Len(action_queue) >= 2
    /\ \E i \in DOMAIN action_queue : action_queue[i].id = UPGRADE_ALL
    /\ \E c \in DOMAIN calls : calls[c].result = 1

(* C34: an append deletes no action with another id: the queue grows by  *)
(* one when the id was absent and keeps its length when the id was        *)
(* present, and a placement action whose cells are all among the cells    *)
(* of a placement append under another id stays queued with no cells.     *)
C34_TrimKeepsActions ==
    [][last'.op = "append" =>
          /\ Len(action_queue') =
                Len(action_queue) + (IF last'.index = 0 THEN 1 ELSE 0)
          /\ \A i \in DOMAIN action_queue :
                Before[i].id # last'.id =>
                   /\ \E k \in DOMAIN After : After[k].id = Before[i].id
                   /\ (/\ ~last'.upgrade
                       /\ ~Before[i].upgrade
                       /\ CellSet(Before[i].locations) \subseteq CellSet(last'.locations))
                      => \A k \in DOMAIN After :
                            After[k].id = Before[i].id => After[k].locations = <<>>]_vars

(* C37: the id 'upgrade_all' is reserved.  When an execute finds the      *)
(* queue dirty and an action queued under that id, the pass leaves         *)
(* exactly one action under the id, an upgrade action without unit type    *)
(* and with the cap of the turn, and the cells of that action are the      *)
(* cells held by the non-upgrade actions of the other ids: a cell of the   *)
(* replaced action is among them only when such an action holds it.        *)
C37_ReservedId ==
    [][(/\ last'.op = "execute"
        /\ last'.was_dirty
        /\ \E i \in DOMAIN Before : Before[i].id = UPGRADE_ALL)
       => LET held == UNION {CellSet(Before[i].locations) :
                               i \in {n \in DOMAIN Before :
                                        /\ Before[n].id # UPGRADE_ALL
                                        /\ ~Before[n].upgrade}}
          IN  /\ Cardinality({k \in DOMAIN After : After[k].id = UPGRADE_ALL}) = 1
              /\ \A k \in DOMAIN After :
                    After[k].id = UPGRADE_ALL =>
                       /\ After[k].upgrade
                       /\ After[k].unit_type = ""
                       /\ After[k].max_num = UpgradeAllCap(last'.turn)
                       /\ CellSet(After[k].locations) = held]_vars

(* an execute has replaced a placement action that the policy had queued  *)
(* under the reserved id, and a cell of that action is not a cell of the   *)
(* regenerated action although other placement cells are                   *)
C37_Witness ==
    /\ last.op = "execute"
    /\ last.index # 0
    /\ ~last.upgrade
    /\ \E k \in DOMAIN action_queue :
          /\ action_queue[k].id = UPGRADE_ALL
          /\ heap[action_queue[k].locations] # <<>>
          /\ \E c \in CellSet(last.locations) :
                c \notin CellSet(heap[action_queue[k].locations])

(* C36: right after build_reactive_defense returns, the first action of   *)
(* the queue is the placement action 'response_turrets', the second is     *)
(* the upgrade action 'upgrade_response_turrets', both hold the cells of   *)
(* the breach log as the call found it, the flag is set, and the call      *)
(* has raised nothing, whichever of the two ids were queued before.        *)
C36_ReactiveDefense ==
    last.op = "build_reactive_defense" =>
        /\ last.error = ""
        /\ change_flag
        /\ Len(action_queue) >= 2
        /\ Before[1].id = "response_turrets"
        /\ ~Before[1].upgrade
        /\ Before[1].locations = last.locations
        /\ Before[2].id = "upgrade_response_turrets"
        /\ Before[2].upgrade
        /\ Before[2].locations = last.locations
        /\ \A i \in DOMAIN Before :
              i > 2 => Before[i].id \notin {"response_turrets",
                                            "upgrade_response_turrets"}

(* the call found 'response_turrets' queued and a breach in the log *)
C36_Witness ==
    /\ last.op = "build_reactive_defense"
    /\ last.index > 0
    /\ last.locations # <<>>
    /\ Len(action_queue) = 2

(* C38: in the startup variant no step takes a key out of the tracked     *)
(* set; add_locations adds the key of every cell it is given, and no two   *)
(* tracked keys stand for one cell; one call of upgrade_all issues         *)
(* upgrade requests only, each for a tracked cell and no cell twice, a     *)
(* request that returned 0 is the last request of the call, so the call    *)
(* has at most one such request, and without one every tracked cell has    *)
(* been asked for.                                                         *)
C38_StopAtFirstFailure ==
    [][/\ all_locations \subseteq all_locations'
       /\ \A h, k \in all_locations' :
             inv_point_hash(h) = inv_point_hash(k) => h = k
       /\ last'.op = "add_locations" =>
             \A i \in DOMAIN last'.locations :
                \E h \in all_locations' : inv_point_hash(h) = last'.locations[i]
       /\ last'.op = "upgrade_all" =>
             /\ \A k \in DOMAIN calls' :
                   /\ calls'[k].kind = "upgrade"
                   /\ point_hash(calls'[k].location) \in all_locations
                   /\ calls'[k].result = 0 => k = Len(calls')
                   /\ \A m \in DOMAIN calls' :
                         m # k => calls'[m].location # calls'[k].location
             /\ Cardinality({k \in DOMAIN calls' : calls'[k].result = 0}) <= 1
             /\ (\A k \in DOMAIN calls' : calls'[k].result = 1)
                   => Len(calls') = Cardinality(all_locations)]_vars

(* a call of upgrade_all on three tracked cells has had one upgrade, then *)
(* a refusal, and has left the third cell alone                            *)
C38_Witness ==
    /\ last.op = "upgrade_all"
    /\ Cardinality(all_locations) = 3
    /\ Len(calls) = 2
    /\ calls[1].result = 1
    /\ calls[2].result = 0

(* every cell of every queued placement action with a cap of 1 or more   *)
(* holds a unit                                                           *)
Completed ==
    \A i \in DOMAIN action_queue :
       (~action_queue[i].upgrade /\ action_queue[i].max_num >= 1)
          => CellSet(heap[action_queue[i].locations]) \subseteq game_map.units

(* C35: once the policy has made its last change to the queue and the    *)
(* turns keep coming, each with resources for at least one request, the   *)
(* match reaches a state from which every cell of every placement action  *)
(* with a cap of 1 or more holds a unit, wherever the action stands in    *)
(* the queue.                                                             *)
C35_EventualCompletion == <>[]Completed

(* two capped placement actions are complete, the second one behind an   *)
(* action that took turns to finish, and the pass has issued requests     *)
(* that returned 0                                                        *)
C35_Witness ==
    /\ last.op = "execute"
    /\ Completed
    /\ \E i, k \in DOMAIN action_queue :
          /\ i < k
          /\ ~action_queue[i].upgrade /\ action_queue[i].max_num = 1
          /\ ~action_queue[k].upgrade /\ action_queue[k].max_num = 1
          /\ Len(heap[action_queue[i].locations]) = 2
          /\ heap[action_queue[k].locations] # <<>>
    /\ game_map.units = Cells
    /\ \E n \in DOMAIN calls : calls[n].result = 0

====
